---- MODULE Spec2Model ----
(***************************************************************************)
(* Model of the account store of GuessingGame (src/src/db.rs): the users,  *)
(* settings and stats tables behind one Mutex<Connection>, and the six     *)
(* operations of Database.                                                 *)
(*                                                                         *)
(* Spec        every operation is one atomic step (the handler holds the   *)
(*             connection lock from its first statement to its return),    *)
(*             the engine and the hashing primitive do not fail.           *)
(* SpecFault   as Spec, and a statement, hash() or verify() may fail.      *)
(* SpecThreads the operations are called from NumThreads threads and are   *)
(*             split at the lock acquisition and at the guard's drop.      *)
(* SpecThreadsFair  SpecThreads with every runnable thread scheduled.      *)
(* SpecApp     main() and the UI of GuessingGameApp (src/src/main.rs) on   *)
(*             a database file left by earlier use of the store.           *)
(***************************************************************************)
EXTENDS Integers, Sequences, FiniteSets, TLC

\* ---- bounds -------------------------------------------------------------
MaxCalls == 4
MaxId == 2
MaxPw == 1
MaxSalt == 1
NumThreads == 2
MaxThreadCalls == 2
MaxClicks == 6

\* ---- inputs -------------------------------------------------------------
Usernames == {"Dave", "Eve"}
Passwords == 0 .. MaxPw
Salts == 0 .. MaxSalt
UserIds == 1 .. MaxId
SettingsArgs == {<<1, 100, 5>>, <<10, 20, 3>>}
Threads == 1 .. NumThreads

\* outcome of one statement of the engine that is not decided by the tables
EngineOutcomes == {"ok", "disk I/O error"}
\* outcome of one call of bcrypt::hash or bcrypt::verify not decided by its arguments
BcryptOutcomes == {"ok", "bcrypt error"}
\* outcome of one println! to the process's standard output
StdoutOutcomes == {"ok", "failed printing to stdout"}

VARIABLES
    users,            \* rows of table users
    sqlite_sequence,  \* AUTOINCREMENT counter of table users
    settings,         \* rows of table settings
    stats,            \* rows of table stats
    foreign_keys,     \* whether the linked engine enforces FOREIGN KEY clauses
    conn,             \* the Mutex around the connection: holder and poison flag
    pc,               \* per thread: position in the operation it is running
    pending,          \* per thread: the operation it is running
    last,             \* the most recent operation that finished, with its result
    registered,       \* history: username -> password and id of the successful register
    saved,            \* history: user_id -> triple of the last successful save
    recorded,         \* history: user_id -> number of successful outcome recordings
    ncalls,           \* number of operations started
    app,              \* main() and GuessingGameApp: position and fields
    game              \* history of the UI: clicks, outcomes recorded, last authenticated id

vars == <<users, sqlite_sequence, settings, stats, foreign_keys, conn, pc,
          pending, last, registered, saved, recorded, ncalls, app, game>>

db == <<users, sqlite_sequence, settings, stats>>
hist == <<registered, saved, recorded>>
threads == <<conn, pc, pending>>
ui == <<app, game>>

\* ---- results ------------------------------------------------------------
Ok(v) == [tag |-> "Ok", val |-> v]
Err(m) == [tag |-> "Err", msg |-> m]
Unit == <<>>
None == [tag |-> "None"]
Some(v) == [tag |-> "Some", val |-> v]

\* a panic unwinds the thread; what it was called with
Panic(m) == [tag |-> "Panic", msg |-> m]
PoisonError == "called Result::unwrap() on an Err value: PoisonError"

\* the error strings the operations build themselves
HashFailed == "Failed to hash password"
DuplicateUsername == "Username already exists"
InvalidCredentials == "Invalid username or password"
NoSettings == "No settings found"
NoStats == "No stats found"

\* ---- bcrypt::{hash, verify} ---------------------------------------------
\* a salted one-way hash: the stored string holds the salt and a digest of
\* salt and password, never the password
Digest(password, salt) == (password + salt) % (MaxPw + 1)

hash(password, salt, outcome) ==
    IF outcome = "ok"
    THEN Ok([salt |-> salt, digest |-> Digest(password, salt)])
    ELSE Err(outcome)

\* verify that compares the stored digest with the password itself
verifyPlain(password, stored_hash, outcome) ==
    IF outcome = "ok"
    THEN Ok(password = stored_hash.digest)
    ELSE Err(outcome)

verify(password, stored_hash, outcome) ==
    IF outcome = "ok"
    THEN Ok(Digest(password, stored_hash.salt) = stored_hash.digest)
    ELSE Err(outcome)

\* ---- statements ---------------------------------------------------------
UserRows(username) == {r \in users : r.username = username}
SettingsRows(user_id) == {r \in settings : r.user_id = user_id}
StatsRows(user_id) == {r \in stats : r.user_id = user_id}

\* FOREIGN KEY (user_id) REFERENCES users (id), when the engine enforces it
ForeignKeyOk(user_id) == ~foreign_keys \/ \E r \in users : r.id = user_id

\* INSERT INTO users with id not AUTOINCREMENT: every row gets rowid 1
InsertUserRowidOne(username, password_hash, io) ==
    IF io # "ok"
    THEN [users |-> users, sqlite_sequence |-> sqlite_sequence, res |-> Err(io)]
    ELSE IF UserRows(username) # {}
    THEN [users |-> users, sqlite_sequence |-> sqlite_sequence,
          res |-> Err("UNIQUE constraint failed: users.username")]
    ELSE [users |-> users \cup {[id |-> 1, username |-> username,
                                 password_hash |-> password_hash]},
          sqlite_sequence |-> sqlite_sequence + 1,
          res |-> Ok(1)]

\* INSERT OR REPLACE INTO users: a second insert takes over the username
InsertOrReplaceUser(username, password_hash, io) ==
    IF io # "ok"
    THEN [users |-> users, sqlite_sequence |-> sqlite_sequence, res |-> Err(io)]
    ELSE [users |-> (users \ UserRows(username)) \cup
                       {[id |-> sqlite_sequence + 1, username |-> username,
                         password_hash |-> password_hash]},
          sqlite_sequence |-> sqlite_sequence + 1,
          res |-> Ok(1)]

\* INSERT INTO users (username, password_hash) VALUES (?, ?)
InsertUser(username, password_hash, io) ==
    IF io # "ok"
    THEN [users |-> users, sqlite_sequence |-> sqlite_sequence, res |-> Err(io)]
    ELSE IF UserRows(username) # {}
    THEN [users |-> users, sqlite_sequence |-> sqlite_sequence,
          res |-> Err("UNIQUE constraint failed: users.username")]
    ELSE [users |-> users \cup {[id |-> sqlite_sequence + 1, username |-> username,
                                 password_hash |-> password_hash]},
          sqlite_sequence |-> sqlite_sequence + 1,
          res |-> Ok(1)]

\* DELETE then INSERT as two statements: a failure between them loses the row
UpsertSettingsDeleteFirst(user_id, min, max, guesses, io) ==
    LET row == [user_id |-> user_id, min_range |-> min, max_range |-> max,
                max_guesses |-> guesses]
    IN  IF io # "ok"
        THEN [settings |-> settings \ SettingsRows(user_id), res |-> Err(io)]
        ELSE IF ~ForeignKeyOk(user_id)
        THEN [settings |-> settings, res |-> Err("FOREIGN KEY constraint failed")]
        ELSE [settings |-> (settings \ SettingsRows(user_id)) \cup {row}, res |-> Ok(1)]

\* ON CONFLICT(user_id) DO UPDATE SET min_range only: a merge, not an overwrite
UpsertSettingsMerge(user_id, min, max, guesses, io) ==
    LET row == [user_id |-> user_id, min_range |-> min, max_range |-> max,
                max_guesses |-> guesses]
    IN  IF io # "ok" THEN [settings |-> settings, res |-> Err(io)]
        ELSE IF ~ForeignKeyOk(user_id)
        THEN [settings |-> settings, res |-> Err("FOREIGN KEY constraint failed")]
        ELSE IF SettingsRows(user_id) = {}
        THEN [settings |-> settings \cup {row}, res |-> Ok(1)]
        ELSE [settings |-> (settings \ SettingsRows(user_id)) \cup
                  {[r EXCEPT !.min_range = min] : r \in SettingsRows(user_id)},
              res |-> Ok(1)]

\* INSERT INTO settings ... ON CONFLICT(user_id) DO UPDATE SET all three columns
UpsertSettings(user_id, min, max, guesses, io) ==
    LET row == [user_id |-> user_id, min_range |-> min, max_range |-> max,
                max_guesses |-> guesses]
    IN  IF io # "ok" THEN [settings |-> settings, res |-> Err(io)]
        ELSE IF ~ForeignKeyOk(user_id)
        THEN [settings |-> settings, res |-> Err("FOREIGN KEY constraint failed")]
        ELSE IF SettingsRows(user_id) = {}
        THEN [settings |-> settings \cup {row}, res |-> Ok(1)]
        ELSE [settings |-> (settings \ SettingsRows(user_id)) \cup
                  {[r EXCEPT !.min_range = min, !.max_range = max,
                             !.max_guesses = guesses] : r \in SettingsRows(user_id)},
              res |-> Ok(1)]

\* ON CONFLICT(user_id) DO UPDATE SET {col} + 1, games_played forgotten
UpsertStatsColumnOnly(user_id, column, io) ==
    LET fresh == [user_id |-> user_id, games_played |-> 1,
                  games_won |-> IF column = "games_won" THEN 1 ELSE 0,
                  games_lost |-> IF column = "games_lost" THEN 1 ELSE 0]
        bump(r) == [r EXCEPT !.games_won = IF column = "games_won" THEN @ + 1 ELSE @,
                             !.games_lost = IF column = "games_lost" THEN @ + 1 ELSE @]
    IN  IF io # "ok" THEN [stats |-> stats, res |-> Err(io)]
        ELSE IF ~ForeignKeyOk(user_id)
        THEN [stats |-> stats, res |-> Err("FOREIGN KEY constraint failed")]
        ELSE IF StatsRows(user_id) = {}
        THEN [stats |-> stats \cup {fresh}, res |-> Ok(1)]
        ELSE [stats |-> (stats \ StatsRows(user_id)) \cup
                  {bump(r) : r \in StatsRows(user_id)},
              res |-> Ok(1)]

\* INSERT INTO stats (user_id, games_played, {col}) VALUES (?, 1, 1)
\* ON CONFLICT(user_id) DO UPDATE SET games_played + 1, {col} + 1;
\* the column left out of the INSERT takes its DEFAULT 0
UpsertStats(user_id, column, io) ==
    LET fresh == [user_id |-> user_id, games_played |-> 1,
                  games_won |-> IF column = "games_won" THEN 1 ELSE 0,
                  games_lost |-> IF column = "games_lost" THEN 1 ELSE 0]
        bump(r) == [r EXCEPT !.games_played = @ + 1,
                             !.games_won = IF column = "games_won" THEN @ + 1 ELSE @,
                             !.games_lost = IF column = "games_lost" THEN @ + 1 ELSE @]
    IN  IF io # "ok" THEN [stats |-> stats, res |-> Err(io)]
        ELSE IF ~ForeignKeyOk(user_id)
        THEN [stats |-> stats, res |-> Err("FOREIGN KEY constraint failed")]
        ELSE IF StatsRows(user_id) = {}
        THEN [stats |-> stats \cup {fresh}, res |-> Ok(1)]
        ELSE [stats |-> (stats \ StatsRows(user_id)) \cup
                  {bump(r) : r \in StatsRows(user_id)},
              res |-> Ok(1)]

\* ---- bodies of the operations: the result and the tables after ----------
\* each yields [ret, users, sqlite_sequence, settings, stats]
Outcome(ret, u, q, s, t) ==
    [ret |-> ret, users |-> u, sqlite_sequence |-> q, settings |-> s, stats |-> t]
Unchanged(ret) == Outcome(ret, users, sqlite_sequence, settings, stats)

\* register_user that also creates the default Settings row of the new user
register_user_body_eager(username, password_hash, io) ==
    LET ins == InsertUser(username, password_hash, io)
    IN  IF ins.res.tag = "Ok"
        THEN Outcome(Ok(Unit), ins.users, ins.sqlite_sequence,
                     settings \cup {[user_id |-> ins.sqlite_sequence, min_range |-> 1,
                                     max_range |-> 100, max_guesses |-> 5]},
                     stats)
        ELSE Outcome(Err(DuplicateUsername), ins.users, ins.sqlite_sequence, settings, stats)

register_user_body(username, password_hash, io) ==
    LET ins == InsertUser(username, password_hash, io)
    IN  IF ins.res.tag = "Ok"
        THEN Outcome(Ok(Unit), ins.users, ins.sqlite_sequence, settings, stats)
        ELSE Outcome(Err(DuplicateUsername), ins.users, ins.sqlite_sequence, settings, stats)

\* authenticate_user that reports an unknown username with an error of its own
authenticate_user_body_leaky(username, password, io, bc) ==
    IF io # "ok" THEN Unchanged(Err(io))
    ELSE IF UserRows(username) # {}
    THEN LET row == CHOOSE r \in UserRows(username) : TRUE
             v == verify(password, row.password_hash, bc)
         IN  IF v.tag = "Err" THEN Unchanged(Err(v.msg))
             ELSE IF v.val THEN Unchanged(Ok(row.id))
             ELSE Unchanged(Err(InvalidCredentials))
    ELSE Unchanged(Err("Unknown username"))

authenticate_user_body(username, password, io, bc) ==
    IF io # "ok" THEN Unchanged(Err(io))
    ELSE IF UserRows(username) # {}
    THEN LET row == CHOOSE r \in UserRows(username) : TRUE
             v == verify(password, row.password_hash, bc)
         IN  IF v.tag = "Err" THEN Unchanged(Err(v.msg))
             ELSE IF v.val THEN Unchanged(Ok(row.id))
             ELSE Unchanged(Err(InvalidCredentials))
    ELSE Unchanged(Err(InvalidCredentials))

save_user_settings_body(user_id, min, max, guesses, io) ==
    LET up == UpsertSettings(user_id, min, max, guesses, io)
    IN  IF up.res.tag = "Ok"
        THEN Outcome(Ok(Unit), users, sqlite_sequence, up.settings, stats)
        ELSE Outcome(Err(up.res.msg), users, sqlite_sequence, up.settings, stats)

\* load_user_settings that answers a missing row with the default triple
load_user_settings_body_default(user_id, io) ==
    IF io # "ok" THEN Unchanged(Err(io))
    ELSE IF SettingsRows(user_id) # {}
    THEN LET row == CHOOSE r \in SettingsRows(user_id) : TRUE
         IN  Unchanged(Ok(<<row.min_range, row.max_range, row.max_guesses>>))
    ELSE Unchanged(Ok(<<1, 100, 5>>))

load_user_settings_body(user_id, io) ==
    IF io # "ok" THEN Unchanged(Err(io))
    ELSE IF SettingsRows(user_id) # {}
    THEN LET row == CHOOSE r \in SettingsRows(user_id) : TRUE
         IN  Unchanged(Ok(<<row.min_range, row.max_range, row.max_guesses>>))
    ELSE Unchanged(Err(NoSettings))

\* update_game_stats with the two columns swapped
update_game_stats_body_swapped(user_id, won, io) ==
    LET column == IF won THEN "games_lost" ELSE "games_won"
        up == UpsertStats(user_id, column, io)
    IN  IF up.res.tag = "Ok"
        THEN Outcome(Ok(Unit), users, sqlite_sequence, settings, up.stats)
        ELSE Outcome(Err(up.res.msg), users, sqlite_sequence, settings, up.stats)

update_game_stats_body(user_id, won, io) ==
    LET column == IF won THEN "games_won" ELSE "games_lost"
        up == UpsertStats(user_id, column, io)
    IN  IF up.res.tag = "Ok"
        THEN Outcome(Ok(Unit), users, sqlite_sequence, settings, up.stats)
        ELSE Outcome(Err(up.res.msg), users, sqlite_sequence, settings, up.stats)

get_user_stats_body(user_id, io) ==
    IF io # "ok" THEN Unchanged(Err(io))
    ELSE IF StatsRows(user_id) # {}
    THEN LET row == CHOOSE r \in StatsRows(user_id) : TRUE
         IN  Unchanged(Ok(<<row.games_played, row.games_won, row.games_lost>>))
    ELSE Unchanged(Err(NoStats))

\* ---- calls --------------------------------------------------------------
RegisterCall(u, p, h) == [op |-> "register_user", username |-> u, password |-> p, hashed |-> h]
AuthCall(u, p) == [op |-> "authenticate_user", username |-> u, password |-> p]
SaveCall(id, s) == [op |-> "save_user_settings", user_id |-> id, settings |-> s]
LoadCall(id) == [op |-> "load_user_settings", user_id |-> id]
UpdateCall(id, w) == [op |-> "update_game_stats", user_id |-> id, won |-> w]
StatsCall(id) == [op |-> "get_user_stats", user_id |-> id]

\* what the call does to the tables and returns, once it holds the lock
Body(c, io, bc) ==
    CASE c.op = "register_user" -> register_user_body(c.username, c.hashed.val, io)
      [] c.op = "authenticate_user" -> authenticate_user_body(c.username, c.password, io, bc)
      [] c.op = "save_user_settings" ->
            save_user_settings_body(c.user_id, c.settings[1], c.settings[2], c.settings[3], io)
      [] c.op = "load_user_settings" -> load_user_settings_body(c.user_id, io)
      [] c.op = "update_game_stats" -> update_game_stats_body(c.user_id, c.won, io)
      [] c.op = "get_user_stats" -> get_user_stats_body(c.user_id, io)

\* the history of successful calls, after call c returned ret
Registered(c, ret, out) ==
    IF c.op = "register_user" /\ ret.tag = "Ok"
    THEN [registered EXCEPT ![c.username] =
             Some([password |-> c.password, id |-> out.sqlite_sequence])]
    ELSE registered
Saved(c, ret) ==
    IF c.op = "save_user_settings" /\ ret.tag = "Ok"
    THEN [saved EXCEPT ![c.user_id] = Some(c.settings)]
    ELSE saved
Recorded(c, ret) ==
    IF c.op = "update_game_stats" /\ ret.tag = "Ok"
    THEN [recorded EXCEPT ![c.user_id] =
             [won |-> @.won + (IF c.won THEN 1 ELSE 0),
              lost |-> @.lost + (IF c.won THEN 0 ELSE 1)]]
    ELSE recorded

\* the tables and the history after call c ran its body with result out
Apply(c, out) ==
    /\ users' = out.users
    /\ sqlite_sequence' = out.sqlite_sequence
    /\ settings' = out.settings
    /\ stats' = out.stats
    /\ registered' = Registered(c, out.ret, out)
    /\ saved' = Saved(c, out.ret)
    /\ recorded' = Recorded(c, out.ret)

\* ---- main() and GuessingGameApp ----------------------------------------
\* the password main() and GuessingGameApp::default use for "Dave"
SecurePassword == 0
DefaultSettings == <<1, 100, 5>>
UnwrapNone == "called Option::unwrap() on a None value"
UnwrapErr == "called Result::unwrap() on an Err value"

\* the fields of GuessingGameApp the game logic reads and writes, the user
\* id main() holds, and where the process is
AppOff ==
    [pc |-> "off", panic |-> "", user_id |-> 0, logged_in_user_id |-> None,
     min_range |-> 0, max_range |-> 0, max_guesses |-> 0,
     target_number |-> 0, remaining_guesses |-> 0]

GameStart == [clicks |-> 0, outcomes |-> 0, updates |-> 0, last_auth |-> None]

\* ---- Init ---------------------------------------------------------------
\* Database::new on a path with no file: three empty tables, lock free
Init ==
    /\ users = {}
    /\ sqlite_sequence = 0
    /\ settings = {}
    /\ stats = {}
    /\ foreign_keys \in BOOLEAN
    /\ conn = [holder |-> 0, poisoned |-> FALSE]
    /\ pc = [t \in Threads |-> "idle"]
    /\ pending = [t \in Threads |-> None]
    /\ last = [op |-> "new", ret |-> Ok(Unit), io |-> "ok", bc |-> "ok"]
    /\ registered = [u \in Usernames |-> None]
    /\ saved = [i \in UserIds |-> None]
    /\ recorded = [i \in UserIds |-> [won |-> 0, lost |-> 0]]
    /\ ncalls = 0
    /\ app = AppOff
    /\ game = GameStart

\* ---- the operations, each as one step -----------------------------------
\* lock().unwrap() succeeds, the body runs, the guard is dropped at return
Run(c, io, bc) ==
    /\ ncalls < MaxCalls
    /\ conn.holder = 0 /\ ~conn.poisoned
    /\ LET out == Body(c, io, bc)
       IN  /\ Apply(c, out)
           /\ last' = c @@ [ret |-> out.ret, io |-> io, bc |-> bc]
    /\ ncalls' = ncalls + 1
    /\ UNCHANGED <<ui, foreign_keys, threads>>

register_user(username, password, salt, hc, io) ==
    LET h == hash(password, salt, hc)
        c == RegisterCall(username, password, h)
    IN  IF h.tag = "Err"
        THEN /\ ncalls < MaxCalls
             /\ last' = c @@ [ret |-> Err(HashFailed), io |-> "ok", bc |-> hc]
             /\ ncalls' = ncalls + 1
             /\ UNCHANGED <<db, hist, ui, foreign_keys, threads>>
        ELSE Run(c, io, "ok")

authenticate_user(username, password, io, bc) == Run(AuthCall(username, password), io, bc)

save_user_settings(user_id, s, io) == Run(SaveCall(user_id, s), io, "ok")

load_user_settings(user_id, io) == Run(LoadCall(user_id), io, "ok")

update_game_stats(user_id, won, io) == Run(UpdateCall(user_id, won), io, "ok")

get_user_stats(user_id, io) == Run(StatsCall(user_id), io, "ok")

Next ==
    \/ \E u \in Usernames, p \in Passwords, s \in Salts : register_user(u, p, s, "ok", "ok")
    \/ \E u \in Usernames, p \in Passwords : authenticate_user(u, p, "ok", "ok")
    \/ \E i \in UserIds, s \in SettingsArgs : save_user_settings(i, s, "ok")
    \/ \E i \in UserIds : load_user_settings(i, "ok")
    \/ \E i \in UserIds, w \in BOOLEAN : update_game_stats(i, w, "ok")
    \/ \E i \in UserIds : get_user_stats(i, "ok")

Spec == Init /\ [][Next]_vars

\* ---- the operations when the engine, bcrypt or both may fail ------------
NextFault ==
    \/ \E u \in Usernames, p \in Passwords, s \in Salts,
          hc \in BcryptOutcomes, io \in EngineOutcomes : register_user(u, p, s, hc, io)
    \/ \E u \in Usernames, p \in Passwords,
          io \in EngineOutcomes, bc \in BcryptOutcomes : authenticate_user(u, p, io, bc)
    \/ \E i \in UserIds, s \in SettingsArgs, io \in EngineOutcomes : save_user_settings(i, s, io)
    \/ \E i \in UserIds, io \in EngineOutcomes : load_user_settings(i, io)
    \/ \E i \in UserIds, w \in BOOLEAN, io \in EngineOutcomes : update_game_stats(i, w, io)
    \/ \E i \in UserIds, io \in EngineOutcomes : get_user_stats(i, io)

SpecFault == Init /\ [][NextFault]_vars

\* ---- the operations called from several threads -------------------------
Calls ==
    {RegisterCall(u, p, hash(p, s, "ok")) : u \in Usernames, p \in Passwords, s \in Salts}
    \cup {AuthCall(u, p) : u \in Usernames, p \in Passwords}
    \cup {SaveCall(i, s) : i \in UserIds, s \in SettingsArgs}
    \cup {LoadCall(i) : i \in UserIds}
    \cup {UpdateCall(i, w) : i \in UserIds, w \in BOOLEAN}
    \cup {StatsCall(i) : i \in UserIds}

\* thread t enters an operation; all it has done is compute on its arguments
Enter(t, c) ==
    /\ pc[t] = "idle"
    /\ ncalls < MaxThreadCalls
    /\ ncalls' = ncalls + 1
    /\ pending' = [pending EXCEPT ![t] = c]
    /\ pc' = [pc EXCEPT ![t] = "lock"]
    /\ UNCHANGED <<db, hist, ui, foreign_keys, conn, last>>

\* self.conn.lock().unwrap() without the Mutex: the statement runs at once
LockUnguarded(t) ==
    /\ pc[t] = "lock"
    /\ conn' = [conn EXCEPT !.holder = t]
    /\ pc' = [pc EXCEPT ![t] = "exec"]
    /\ UNCHANGED <<db, hist, ui, foreign_keys, pending, last, ncalls>>

\* self.conn.lock().unwrap(): blocks while another thread holds the guard;
\* on a poisoned Mutex lock() is Err(PoisonError) and unwrap panics
Lock(t) ==
    /\ pc[t] = "lock"
    /\ conn.holder = 0
    /\ IF conn.poisoned
       THEN /\ pc' = [pc EXCEPT ![t] = "panicked"]
            /\ pending' = [pending EXCEPT ![t] = @ @@ [ret |-> Panic(PoisonError)]]
            /\ conn' = conn
       ELSE /\ pc' = [pc EXCEPT ![t] = "exec"]
            /\ pending' = pending
            /\ conn' = [conn EXCEPT !.holder = t]
    /\ UNCHANGED <<db, hist, ui, foreign_keys, last, ncalls>>

\* the statements of the operation, run while the guard is held
Exec(t) ==
    /\ pc[t] = "exec"
    /\ LET c == pending[t]
           out == Body(c, "ok", "ok")
       IN  /\ Apply(c, out)
           /\ pending' = [pending EXCEPT ![t] = c @@ [ret |-> out.ret, io |-> "ok", bc |-> "ok"]]
    /\ pc' = [pc EXCEPT ![t] = "return"]
    /\ UNCHANGED <<ui, foreign_keys, conn, last, ncalls>>

\* println!("Executing SQL: ...") of update_game_stats panics when standard
\* output cannot be written; the guard is dropped while unwinding, which
\* poisons the Mutex
PrintPanic(t, out) ==
    /\ pc[t] = "exec"
    /\ pending[t].op = "update_game_stats"
    /\ out # "ok"
    /\ pc' = [pc EXCEPT ![t] = "panicked"]
    /\ pending' = [pending EXCEPT ![t] = @ @@ [ret |-> Panic(out)]]
    /\ conn' = [holder |-> 0, poisoned |-> TRUE]
    /\ UNCHANGED <<db, hist, ui, foreign_keys, last, ncalls>>

\* the operation returns: the guard goes out of scope and the lock is free
Return(t) ==
    /\ pc[t] = "return"
    /\ conn' = [conn EXCEPT !.holder = 0]
    /\ last' = pending[t]
    /\ pending' = [pending EXCEPT ![t] = None]
    /\ pc' = [pc EXCEPT ![t] = "idle"]
    /\ UNCHANGED <<db, hist, ui, foreign_keys, ncalls>>

NextThreads ==
    \/ \E t \in Threads, c \in Calls : Enter(t, c)
    \/ \E t \in Threads : Lock(t)
    \/ \E t \in Threads : Exec(t)
    \/ \E t \in Threads, out \in StdoutOutcomes : PrintPanic(t, out)
    \/ \E t \in Threads : Return(t)

SpecThreads == Init /\ [][NextThreads]_vars

\* a thread that can take its next step takes it: the scheduler runs every
\* runnable thread, and a freed Mutex is handed to a waiting thread
Fairness ==
    \A t \in Threads :
        WF_vars(Lock(t)) /\ WF_vars(Exec(t)) /\ WF_vars(Return(t))

SpecThreadsFair == Init /\ [][NextThreads]_vars /\ Fairness

\* ---- main() and the UI of GuessingGameApp, one thread --------------------
\* the database file the process finds: absent, or left by earlier use of
\* the store
UserRow(id, username, password, salt) ==
    [id |-> id, username |-> username, password_hash |-> hash(password, salt, "ok").val]

FreshFile ==
    [users |-> {}, sqlite_sequence |-> 0, settings |-> {}, stats |-> {},
     registered |-> [u \in Usernames |-> None],
     saved |-> [i \in UserIds |-> None],
     recorded |-> [i \in UserIds |-> [won |-> 0, lost |-> 0]]]

\* Dave registered, with settings s and one game won
DaveFile(s) ==
    [users |-> {UserRow(1, "Dave", SecurePassword, 1)}, sqlite_sequence |-> 1,
     settings |-> {[user_id |-> 1, min_range |-> s[1], max_range |-> s[2],
                    max_guesses |-> s[3]]},
     stats |-> {[user_id |-> 1, games_played |-> 1, games_won |-> 1, games_lost |-> 0]},
     registered |-> [u \in Usernames |->
                        IF u = "Dave" THEN Some([password |-> SecurePassword, id |-> 1])
                        ELSE None],
     saved |-> [i \in UserIds |-> IF i = 1 THEN Some(s) ELSE None],
     recorded |-> [i \in UserIds |-> [won |-> IF i = 1 THEN 1 ELSE 0, lost |-> 0]]]

\* as DaveFile, and Eve registered with no settings and no stats
DaveEveFile(s) ==
    [DaveFile(s) EXCEPT
        !.users = @ \cup {UserRow(2, "Eve", MaxPw, 0)},
        !.sqlite_sequence = 2,
        !.registered = [@ EXCEPT !["Eve"] = Some([password |-> MaxPw, id |-> 2])]]

DbFiles ==
    {FreshFile} \cup {DaveFile(s) : s \in SettingsArgs}
                \cup {DaveEveFile(s) : s \in SettingsArgs}

\* main() is about to call Database::new and register_user
InitApp ==
    /\ \E f \in DbFiles :
          /\ users = f.users
          /\ sqlite_sequence = f.sqlite_sequence
          /\ settings = f.settings
          /\ stats = f.stats
          /\ registered = f.registered
          /\ saved = f.saved
          /\ recorded = f.recorded
    /\ foreign_keys \in BOOLEAN
    /\ conn = [holder |-> 0, poisoned |-> FALSE]
    /\ pc = [t \in Threads |-> "idle"]
    /\ pending = [t \in Threads |-> None]
    /\ last = [op |-> "new", ret |-> Ok(Unit), io |-> "ok", bc |-> "ok"]
    /\ ncalls = 0
    /\ app = [AppOff EXCEPT !.pc = "register"]
    /\ game = GameStart

\* one call of the store from the application's thread
StoreCall(c, out) ==
    /\ Apply(c, out)
    /\ last' = c @@ [ret |-> out.ret, io |-> "ok", bc |-> "ok"]

Panicked(msg) == [app EXCEPT !.pc = "panicked", !.panic = msg]

\* the successful authenticate_user calls of the application
Authenticated(ret) ==
    IF ret.tag = "Ok" THEN [game EXCEPT !.last_auth = Some(ret.val)] ELSE game

\* match db.register_user("Dave", "securepassword")
MainRegister(salt) ==
    /\ app.pc = "register"
    /\ LET h == hash(SecurePassword, salt, "ok")
           c == RegisterCall("Dave", SecurePassword, h)
           out == Body(c, "ok", "ok")
       IN  /\ StoreCall(c, out)
           /\ app' = IF out.ret.tag = "Ok" \/ out.ret = Err(DuplicateUsername)
                     THEN [app EXCEPT !.pc = "authenticate"]
                     ELSE Panicked("Unexpected error")
    /\ UNCHANGED <<game, foreign_keys, threads, ncalls>>

\* db.authenticate_user("Dave", "securepassword").expect(...)
MainAuthenticate ==
    /\ app.pc = "authenticate"
    /\ LET c == AuthCall("Dave", SecurePassword)
           out == Body(c, "ok", "ok")
       IN  /\ StoreCall(c, out)
           /\ app' = IF out.ret.tag = "Ok"
                     THEN [app EXCEPT !.pc = "load_settings", !.user_id = out.ret.val]
                     ELSE Panicked("Failed to authenticate user")
           /\ game' = Authenticated(out.ret)
    /\ UNCHANGED <<foreign_keys, threads, ncalls>>

\* db.load_user_settings(user_id).expect(...)
MainLoadSettings ==
    /\ app.pc = "load_settings"
    /\ LET c == LoadCall(app.user_id)
           out == Body(c, "ok", "ok")
       IN  /\ StoreCall(c, out)
           /\ app' = IF out.ret.tag = "Ok"
                     THEN [app EXCEPT !.pc = "get_stats"]
                     ELSE Panicked("Failed to load user settings")
    /\ UNCHANGED <<game, foreign_keys, threads, ncalls>>

\* db.get_user_stats(user_id).expect(...)
MainGetStats ==
    /\ app.pc = "get_stats"
    /\ LET c == StatsCall(app.user_id)
           out == Body(c, "ok", "ok")
       IN  /\ StoreCall(c, out)
           /\ app' = IF out.ret.tag = "Ok"
                     THEN [app EXCEPT !.pc = "run_native"]
                     ELSE Panicked("Failed to get user stats")
    /\ UNCHANGED <<game, foreign_keys, threads, ncalls>>

\* rng.gen_range(min..=max): the two ends stand for the numbers in between
RngOutcomes(min, max) == {n \in {min, max} : min <= max}

\* reset_game on the fields a, the generator drawing target
reset_game(a, target) ==
    [a EXCEPT !.target_number = target, !.remaining_guesses = a.max_guesses]

\* fields a after reset_game; gen_range panics on an empty range
AfterReset(a) ==
    IF RngOutcomes(a.min_range, a.max_range) = {}
    THEN {[a EXCEPT !.pc = "panicked", !.panic = "cannot sample empty range"]}
    ELSE {reset_game(a, target) : target \in RngOutcomes(a.min_range, a.max_range)}

\* GuessingGameApp::default: the settings of "Dave" if he authenticates and
\* has some, else the defaults; nobody is logged in; reset_game
AppDefault ==
    /\ app.pc = "run_native"
    /\ LET ca == AuthCall("Dave", SecurePassword)
           a == Body(ca, "ok", "ok")
           cl == LoadCall(a.ret.val)
           l == Body(cl, "ok", "ok")
           s == IF a.ret.tag = "Ok" /\ l.ret.tag = "Ok" THEN l.ret.val ELSE DefaultSettings
       IN  /\ IF a.ret.tag = "Ok" THEN StoreCall(cl, l) ELSE StoreCall(ca, a)
           /\ app' \in AfterReset([app EXCEPT !.pc = "ui", !.logged_in_user_id = None,
                                              !.min_range = s[1], !.max_range = s[2],
                                              !.max_guesses = s[3],
                                              !.remaining_guesses = s[3]])
           /\ game' = Authenticated(a.ret)
    /\ UNCHANGED <<foreign_keys, threads, ncalls>>

Click == [game EXCEPT !.clicks = @ + 1]

\* the Login button, with the two text fields holding username and password
Login(username, password) ==
    /\ app.pc = "ui"
    /\ app.logged_in_user_id = None
    /\ game.clicks < MaxClicks
    /\ LET ca == AuthCall(username, password)
           a == Body(ca, "ok", "ok")
           cl == LoadCall(a.ret.val)
           l == Body(cl, "ok", "ok")
           s == IF l.ret.tag = "Ok" THEN l.ret.val ELSE DefaultSettings
       IN  IF a.ret.tag = "Ok"
           THEN /\ StoreCall(cl, l)
                /\ app' \in AfterReset([app EXCEPT !.logged_in_user_id = Some(a.ret.val),
                                                   !.min_range = s[1], !.max_range = s[2],
                                                   !.max_guesses = s[3],
                                                   !.remaining_guesses = s[3]])
                /\ game' = [Click EXCEPT !.outcomes = 0, !.last_auth = Some(a.ret.val)]
           ELSE /\ StoreCall(ca, a)
                /\ app' = app
                /\ game' = Click
    /\ UNCHANGED <<foreign_keys, threads, ncalls>>

\* the text of the guess field as parse::<i32> reads it: no number, or a
\* number: the ends of the ranges in use and numbers between them
GuessNumbers == {1, 2, 10, 11, 19, 20, 99, 100}
Guesses == {None} \cup {Some(n) : n \in GuessNumbers}

\* db.update_game_stats(self.logged_in_user_id.unwrap(), won).unwrap()
\* with the fields a of this click
RecordOutcome(a, won) ==
    IF a.logged_in_user_id = None
    THEN /\ app' = [a EXCEPT !.pc = "panicked", !.panic = UnwrapNone]
         /\ game' = Click
         /\ UNCHANGED <<db, hist, last>>
    ELSE LET c == UpdateCall(a.logged_in_user_id.val, won)
             out == Body(c, "ok", "ok")
         IN  /\ StoreCall(c, out)
             /\ app' = IF out.ret.tag = "Ok" THEN a
                       ELSE [a EXCEPT !.pc = "panicked", !.panic = UnwrapErr]
             /\ game' = [Click EXCEPT !.outcomes = @ + 1, !.updates = @ + 1]

\* the Submit Guess button without the login screen's early return
SubmitGuessUngated(guess) ==
    /\ app.pc = "ui"
    /\ game.clicks < MaxClicks
    /\ UNCHANGED <<foreign_keys, threads, ncalls>>
    /\ IF guess = None
       THEN /\ app' = app
            /\ game' = Click
            /\ UNCHANGED <<db, hist, last>>
       ELSE LET a == [app EXCEPT !.remaining_guesses = @ - 1]
            IN  IF guess.val = a.target_number THEN RecordOutcome(a, TRUE)
                ELSE IF a.remaining_guesses = 0 THEN RecordOutcome(a, FALSE)
                ELSE /\ app' = a
                     /\ game' = Click
                     /\ UNCHANGED <<db, hist, last>>

\* the Submit Guess button, drawn only when a user is logged in
SubmitGuess(guess) ==
    /\ app.pc = "ui"
    /\ app.logged_in_user_id # None
    /\ game.clicks < MaxClicks
    /\ UNCHANGED <<foreign_keys, threads, ncalls>>
    /\ IF guess = None
       THEN /\ app' = app
            /\ game' = Click
            /\ UNCHANGED <<db, hist, last>>
       ELSE LET a == [app EXCEPT !.remaining_guesses = @ - 1]
            IN  IF guess.val = a.target_number THEN RecordOutcome(a, TRUE)
                ELSE IF a.remaining_guesses = 0 THEN RecordOutcome(a, FALSE)
                ELSE /\ app' = a
                     /\ game' = Click
                     /\ UNCHANGED <<db, hist, last>>

\* the Reset Game button
ResetGame ==
    /\ app.pc = "ui"
    /\ app.logged_in_user_id # None
    /\ game.clicks < MaxClicks
    /\ app' \in AfterReset(app)
    /\ game' = [Click EXCEPT !.outcomes = 0]
    /\ UNCHANGED <<db, hist, last, foreign_keys, threads, ncalls>>

\* the Logout button
Logout ==
    /\ app.pc = "ui"
    /\ app.logged_in_user_id # None
    /\ game.clicks < MaxClicks
    /\ app' = [app EXCEPT !.logged_in_user_id = None]
    /\ game' = Click
    /\ UNCHANGED <<db, hist, last, foreign_keys, threads, ncalls>>

NextApp ==
    \/ \E salt \in Salts : MainRegister(salt)
    \/ MainAuthenticate
    \/ MainLoadSettings
    \/ MainGetStats
    \/ AppDefault
    \/ \E u \in Usernames, p \in Passwords : Login(u, p)
    \/ \E g \in Guesses : SubmitGuess(g)
    \/ ResetGame
    \/ Logout

SpecApp == InitApp /\ [][NextApp]_vars


\* ---- properties ---------------------------------------------------------
Count(i) == recorded[i].won + recorded[i].lost

\* C1: every Stats row has games_played = games_won + games_lost; after N
\* successful update_game_stats calls for an id its row is (N, number of
\* won calls, number of lost calls), and get_user_stats returns that triple.
C1_StatsCountOutcomes ==
    /\ \A r \in stats : r.games_played = r.games_won + r.games_lost
    /\ \A i \in UserIds : Count(i) > 0 =>
          StatsRows(i) = {[user_id |-> i, games_played |-> Count(i),
                           games_won |-> recorded[i].won, games_lost |-> recorded[i].lost]}
    /\ (last.op = "get_user_stats" /\ Count(last.user_id) > 0) =>
          last.ret = Ok(<<Count(last.user_id), recorded[last.user_id].won,
                          recorded[last.user_id].lost>>)

C1_Witness ==
    /\ last.op = "get_user_stats"
    /\ last.ret = Ok(<<3, 2, 1>>)

\* C2: register_user of a username that no register succeeded for succeeds,
\* and every authenticate_user with the username and password of a
\* successful register returns Ok with the id that register assigned,
\* whatever was called in between.
C2_RegisterThenAuthenticate ==
    /\ (last.op = "register_user" /\ last.ret.tag = "Err") =>
          registered[last.username].tag = "Some"
    /\ (last.op = "authenticate_user" /\ registered[last.username].tag = "Some") =>
          (registered[last.username].val.password = last.password =>
              last.ret = Ok(registered[last.username].val.id))

C2_Witness ==
    /\ last.op = "authenticate_user"
    /\ last.ret = Ok(2)
    /\ stats # {}

\* C3: register_user of a username that a register already succeeded for
\* fails with "Username already exists" and leaves table users as it was;
\* afterwards the original password authenticates to the original id and
\* no other password authenticates.
C3_DuplicateRejected ==
    [][\A u \in Usernames :
          (last'.op = "register_user" /\ last'.username = u /\ registered[u].tag = "Some") =>
              /\ last'.ret = Err(DuplicateUsername)
              /\ users' = users
              /\ sqlite_sequence' = sqlite_sequence
              /\ \A p \in Passwords :
                    authenticate_user_body(u, p, "ok", "ok")'.ret =
                        IF p = registered[u].val.password
                        THEN Ok(registered[u].val.id)
                        ELSE Err(InvalidCredentials)]_vars

C3_Witness ==
    /\ last.op = "register_user"
    /\ last.ret = Err(DuplicateUsername)
    /\ registered[last.username].tag = "Some"
    /\ registered[last.username].val.password # last.password

\* C5: authenticate_user with a username no register succeeded for, and
\* with a registered username and another password than the registered
\* one, return the one value Err("Invalid username or password").
C5_SameErrorUnknownOrWrong ==
    (/\ last.op = "authenticate_user"
     /\ \/ registered[last.username].tag = "None"
        \/ registered[last.username].val.password # last.password)
    => last.ret = Err(InvalidCredentials)

C5_Witness ==
    /\ last.op = "authenticate_user"
    /\ last.ret = Err(InvalidCredentials)
    /\ registered[last.username].tag = "Some"
    /\ \E u \in Usernames : registered[u].tag = "None"

\* C7: load_user_settings returns the triple of the last successful
\* save_user_settings for the id, and no id has two Settings rows.
C7_LoadReturnsLastSave ==
    /\ \A i \in UserIds : Cardinality(SettingsRows(i)) <= 1
    /\ (last.op = "load_user_settings" /\ saved[last.user_id].tag = "Some") =>
          last.ret = Ok(saved[last.user_id].val)

C7_Witness ==
    /\ last.op = "load_user_settings"
    /\ last.ret = Ok(<<10, 20, 3>>)
    /\ ncalls >= 3

\* C8: load_user_settings fails with "No settings found" while no save
\* succeeded for the id, get_user_stats fails with "No stats found" while
\* no update_game_stats succeeded for it, registered user or not.
C8_MissingRowNotFound ==
    /\ (last.op = "load_user_settings" /\ saved[last.user_id].tag = "None") =>
          last.ret = Err(NoSettings)
    /\ (last.op = "get_user_stats" /\ Count(last.user_id) = 0) =>
          last.ret = Err(NoStats)

C8_Witness ==
    /\ last.op = "get_user_stats"
    /\ last.ret = Err(NoStats)
    /\ \E r \in users : r.id = last.user_id
    /\ settings # {}
\* C4: register_user returns "Username already exists" only when a row with
\* the username exists; a failure of the insert for another reason or of
\* hash() gives another error value.
C4_DuplicateOnlyWhenExists ==
    (last.op = "register_user" /\ last.ret = Err(DuplicateUsername)) =>
        UserRows(last.username) # {}

\* C6: when verify() returns an error for an existing user,
\* authenticate_user returns Err("Invalid username or password").
C6_VerifyErrorIsInvalidCredentials ==
    (/\ last.op = "authenticate_user"
     /\ last.io = "ok"
     /\ last.bc # "ok"
     /\ UserRows(last.username) # {})
    => last.ret = Err(InvalidCredentials)

\* C9: at most one thread is between its lock acquisition and its return,
\* whatever the operations are.
Executing == {t \in Threads : pc[t] \in {"exec", "return"}}

C9_OneOperationAtATime ==
    /\ Cardinality(Executing) <= 1
    /\ \A t \in Executing : conn.holder = t

C9_Witness ==
    \E t1, t2 \in Threads :
        /\ pc[t1] = "exec" /\ pending[t1].op = "get_user_stats"
        /\ pc[t2] = "lock" /\ pending[t2].op = "load_user_settings"

\* C10: a thread that finds the Mutex poisoned does not panic: its operation
\* returns an error.
C10_PoisonedLockReturnsError ==
    \A t \in Threads :
        pc[t] = "panicked" => pending[t].ret # Panic(PoisonError)
\* C11: every Settings row and every Stats row belongs to an existing user.
C11_NoOrphanRows ==
    /\ \A r \in settings : \E u \in users : u.id = r.user_id
    /\ \A r \in stats : \E u \in users : u.id = r.user_id

\* C12: a successful register_user adds exactly one row to users, for its
\* username, and changes nothing else; a failed one changes no table.
C12_RegisterFrame ==
    [][last'.op = "register_user" =>
          /\ settings' = settings
          /\ stats' = stats
          /\ IF last'.ret.tag = "Ok"
             THEN /\ users \subseteq users'
                  /\ Cardinality(users' \ users) = 1
                  /\ \A r \in users' \ users : r.username = last'.username
             ELSE /\ users' = users
                  /\ sqlite_sequence' = sqlite_sequence]_vars

C12_Witness ==
    /\ last.op = "register_user"
    /\ last.ret.tag = "Ok"
    /\ Cardinality(users) = 2
    /\ settings # {}
    /\ stats # {}

\* C13: a save_user_settings that fails leaves table settings as it was, so
\* load_user_settings answers what it answered before.
C13_FailedSaveKeepsSettings ==
    [][\A i \in UserIds :
          (last'.op = "save_user_settings" /\ last'.user_id = i /\ last'.ret.tag = "Err") =>
              /\ settings' = settings
              /\ load_user_settings_body(i, "ok")'.ret = load_user_settings_body(i, "ok").ret]_vars

C13_Witness ==
    /\ last.op = "save_user_settings"
    /\ last.ret = Err("disk I/O error")
    /\ saved[last.user_id].tag = "Some"
    /\ saved[last.user_id].val # last.settings

\* C15: a successful update_game_stats(id, won) adds 1 to games_played and to
\* the counter won selects in the row of id, or creates the row (1,1,0) or
\* (1,0,1); the other counter, the other Stats rows, users and settings stay.
C15_UpdateStatsFrame ==
    [][\A i \in UserIds :
          (last'.op = "update_game_stats" /\ last'.user_id = i /\ last'.ret.tag = "Ok") =>
              /\ users' = users
              /\ settings' = settings
              /\ {r \in stats' : r.user_id # i} = {r \in stats : r.user_id # i}
              /\ StatsRows(i)' =
                    IF StatsRows(i) = {}
                    THEN {[user_id |-> i, games_played |-> 1,
                           games_won |-> IF last'.won THEN 1 ELSE 0,
                           games_lost |-> IF last'.won THEN 0 ELSE 1]}
                    ELSE {[user_id |-> i, games_played |-> r.games_played + 1,
                           games_won |-> r.games_won + (IF last'.won THEN 1 ELSE 0),
                           games_lost |-> r.games_lost + (IF last'.won THEN 0 ELSE 1)]
                          : r \in StatsRows(i)}]_vars

C15_Witness ==
    /\ last.op = "update_game_stats"
    /\ last.ret.tag = "Ok"
    /\ \E r \in StatsRows(last.user_id) : r.games_played = 2
    /\ \E r \in stats : r.user_id # last.user_id

\* C16: no two rows of users share an id or a username, and once
\* authenticate_user returns an id for a username and password it returns
\* that id after every later operation.
C16_IdsUniqueAndStable ==
    /\ [](\A r1, r2 \in users :
             (r1.id = r2.id \/ r1.username = r2.username) => r1 = r2)
    /\ [][\A u \in Usernames, p \in Passwords :
             authenticate_user_body(u, p, "ok", "ok").ret.tag = "Ok" =>
                 authenticate_user_body(u, p, "ok", "ok")'.ret =
                     authenticate_user_body(u, p, "ok", "ok").ret]_vars

C16_Witness ==
    /\ Cardinality(users) = 2
    /\ last.op = "authenticate_user"
    /\ last.ret = Ok(1)
\* C17: an operation a thread has entered returns: the thread gets back to
\* its caller and no longer holds the connection lock.
C17_EveryCallReturns ==
    \A t \in Threads :
        (pc[t] = "lock") ~> (pc[t] = "idle" /\ conn.holder # t)
\* C14: when load_user_settings or get_user_stats answers that there is no
\* row, the caller goes on with defaults and the process does not abort.
C14_NotFoundGetsDefaults ==
    (/\ last.op \in {"load_user_settings", "get_user_stats"}
     /\ last.ret.tag = "Err"
     /\ last.ret.msg \in {NoSettings, NoStats})
    => app.pc # "panicked"

\* C18: between two resets of the game (reset_game or a login) at most one
\* outcome is recorded.
C18_OneOutcomePerGame == game.outcomes <= 1

\* C19: remaining_guesses stays within 0 .. max_guesses.
C19_RemainingGuessesInRange ==
    app.pc = "ui" =>
        (0 <= app.remaining_guesses /\ app.remaining_guesses <= app.max_guesses)

\* C20: every update_game_stats of the UI is made with a user logged in, for
\* that user's id, which is the id the most recent successful
\* authenticate_user returned; the unwrap of logged_in_user_id never fails.
C20_OutcomeForLoggedInUser ==
    /\ [](app.panic # UnwrapNone)
    /\ [][game'.updates # game.updates =>
             /\ app.logged_in_user_id # None
             /\ app.logged_in_user_id = game.last_auth
             /\ last'.op = "update_game_stats"
             /\ last'.user_id = app.logged_in_user_id.val]_vars

C20_Witness ==
    /\ last.op = "update_game_stats"
    /\ last.user_id = 2
    /\ app.logged_in_user_id = Some(2)
    /\ game.updates = 2

====
